---- MODULE Spec2Model ----
(***************************************************************************)
(* Light-client verifier of lite/client.go: UpdateToHeight and the          *)
(* bisecting advance (fetchAndVerifyToHeightBisecting, verifyAndSave,       *)
(* compareVotingPowers) running over a source provider and a trusted        *)
(* store, called by several goroutines.                                     *)
(***************************************************************************)
EXTENDS Integers, Sequences, FiniteSets, TLC

\* ------------------------------------------------------------------ bounds
MaxHeight == 4          \* heights the source serves: 1..MaxHeight
MaxTime == 4            \* the local clock runs from NowInit to MaxTime
MaxCount == 2           \* fetch / save counters saturate here
MaxCalls == 2           \* UpdateToHeight calls made in one run
MaxLimit == 3           \* limits given to SetLimit: 0..MaxLimit
MaxProviders == 2       \* providers of a layered provider under test
MaxOptions == 2         \* options given to NewVerifier

\* ------------------------------------------------------- program constants
TrustPeriod == 2        \* options.TrustPeriod (vp.trustPeriod)
AnchorHeight == 1       \* height of the commit NewProvider bootstrapped
NowInit == 3            \* NewProvider requires now > trustCommit.Time
CacheSize == 2          \* cacheSize: limit of the provider in memory

Heights == 1..MaxHeight
Procs == {1, 2}          \* goroutines calling UpdateToHeight

\* --------------------------------------------------------- validator sets
\* A validator set is a function address -> voting power; 0 = not a member.
Addr == {"a", "b", "c", "d"}

VNone == [x \in Addr |-> 0]
VA == [x \in Addr |-> IF x \in {"a", "b", "c"} THEN 1 ELSE 0]
VScaled == [x \in Addr |-> IF x \in {"a", "b", "c"} THEN 2 ELSE 0]
VDrift == [x \in Addr |-> IF x = "a" THEN 2 ELSE IF x \in {"b", "c"} THEN 1 ELSE 0]
VChurn == [x \in Addr |-> IF x = "c" THEN 1 ELSE 0]
VNew == [x \in Addr |-> 1]

Members(vs) == {x \in Addr : vs[x] > 0}

RECURSIVE SumPower(_, _)
SumPower(vs, S) ==
    IF S = {} THEN 0
    ELSE LET x == CHOOSE y \in S : TRUE IN vs[x] + SumPower(vs, S \ {x})

TotalVotingPower(vs) == SumPower(vs, Members(vs))

\* --------------------------------------------------------- full commits
NoFC == [height |-> 0, time |-> 0, vals |-> VNone, nextvals |-> VNone,
         signers |-> {}, hashOK |-> FALSE]

\* ValidatorSet.VerifyCommit: the signers that are members of vs hold more
\* than 2/3 of its power; otherwise ErrTooMuchChange (client.go:418).
VerifyCommit(vs, fc) ==
    IF 3 * SumPower(vs, fc.signers \cap Members(vs)) > 2 * TotalVotingPower(vs)
    THEN "ok" ELSE "ErrTooMuchChange"

\* ValidatorSet.VerifyCommitTrusting at trust level num/den (spec 4.1); the
\* advance of client.go never calls it.
VerifyCommitTrusting(vs, fc, num, den) ==
    IF den * SumPower(vs, fc.signers \cap Members(vs)) >= num * TotalVotingPower(vs)
    THEN "ok" ELSE "ErrTooMuchChange"

\* FullCommit.ValidateFull: the bound validator sets hash to what the header
\* commits to and the commit is signed by more than 2/3 of Validators.
ValidateFull(fc) ==
    IF ~fc.hashOK THEN "ErrUnexpectedValidators"
    ELSE IF VerifyCommit(fc.vals, fc) # "ok" THEN "ErrInvalidCommit"
    ELSE "ok"

\* ------------------------------------------------------------ the source
\* The chains the source may serve.  Validators are VA below height sw and
\* W(sc) from sw on ("Unsigned": VA with too few signatures, "BadHash": VA
\* with validator sets that do not hash to the header's); `ann` says whether
\* the commit at sw-1 announces the change in its NextValidators (a chain
\* that does not is a forged or forked continuation: each of its commits is
\* self-consistent, and its signers signed a header that departs from the
\* set announced below it).
Scenarios == {"Scaled", "Drift", "Churn", "NewVal", "Unsigned", "BadHash"}

WVals(sc) ==
    CASE sc = "Scaled" -> VScaled
      [] sc = "Drift" -> VDrift
      [] sc = "Churn" -> VChurn
      [] sc = "NewVal" -> VNew
      [] OTHER -> VA

WSigners(sc) == IF sc = "Unsigned" THEN {"a"} ELSE Members(WVals(sc))

Chain(sc, sw, ann) ==
    [h \in Heights |->
        [height |-> h,
         time |-> h,
         vals |-> IF h < sw THEN VA ELSE WVals(sc),
         nextvals |-> IF h + 1 < sw \/ (h + 1 = sw /\ ~ann) THEN VA ELSE WVals(sc),
         signers |-> IF h < sw THEN Members(VA) ELSE WSigners(sc),
         hashOK |-> h < sw \/ sc # "BadHash"]]

\* Chains whose validator change the commit below it did not announce.
ForkedChains == {Chain(sc, sw, FALSE) : sc \in {"Churn", "Scaled"}, sw \in {2, 3}}

Chains == {Chain(sc, sw, TRUE) : sc \in Scenarios, sw \in {2, 3}} \cup ForkedChains

VARIABLES
    source,       \* the chain the source provider serves
    mode,         \* vp.mode, set by the Sequential/Bisecting option
    now,          \* vp.now()
    trusted,      \* vp.trusted: height -> FullCommit or NoFC
    trustedFault, \* the reads of vp.trusted fail (not with ErrCommitNotFound)
    height,       \* vp.height (last verified height)
    stack,        \* per caller: frames of fetchAndVerifyToHeightBisecting
    target,       \* per caller: the height of its UpdateToHeight call
    result,       \* per caller: outcome of its last UpdateToHeight call
    panicked,     \* a goroutine panicked: the process is gone
    lastVerify,   \* per caller: the last verifyAndSave step of its call
    savedVia,     \* per height: how the commit stored there was verified
    fetchCount,   \* per height: fetches from the source (saturating)
    saveCount,    \* per height: SaveFullCommit calls (saturating)
    calls,        \* UpdateToHeight calls made so far
    mem,          \* key-value provider in memory (first of the trusted stack)
    disk,         \* key-value provider on disk (second of the trusted stack)
    limit,        \* DB.limit of the provider in memory
    lastSave,     \* provider under test: the last save and how often in a row
    itr,          \* provider under test: the running loop of deleteAfterN
    dbres,        \* provider under test: the result of the last read
    options,      \* TrustOptions given to NewProvider
    boot,         \* NewProvider: where it stands, what it fetched, its error
    verifier,     \* NewVerifier: the options given and the Verifier so far
    verified,     \* outcome of the last Verify call
    provs,        \* layered provider under test: the answer of each provider
    mres,         \* layered provider under test: the last result
    client,       \* HTTP provider under test: how its RPC client answers
    srcres        \* HTTP provider under test: the last result

vars == <<source, mode, now, trusted, trustedFault, height, stack, target, result, panicked,
          lastVerify, savedVia, fetchCount, saveCount, calls,
          mem, disk, limit, lastSave, itr, dbres, options, boot, verifier,
          verified, provs, mres, client, srcres>>

\* The variables of the verifier, of the trusted stack below it, of the
\* constructor, of Verify and of the layered provider under test.
verifierVars == <<source, mode, now, trusted, trustedFault, height, stack, target, result,
                  panicked, lastVerify, savedVia, fetchCount, saveCount, calls>>
kvVars == <<mem, disk, limit, lastSave, itr, dbres>>
bootVars == <<options, boot, verifier>>
multiVars == <<provs, mres, client, srcres>>


\* ------------------------------------------------------------- providers
\* Provider.LatestFullCommit(chainID, minHeight, maxHeight) on a store: the
\* commit of greatest height within [minHeight, maxHeight], NoFC when there
\* is none (ErrCommitNotFound).
LatestFullCommit(store, minHeight, maxHeight) ==
    LET have == {h \in DOMAIN store : minHeight <= h /\ h <= maxHeight /\ store[h] # NoFC}
    IN IF have = {} THEN NoFC
       ELSE store[CHOOSE h \in have : \A g \in have : g <= h]

\* A save that reports success and stores nothing.
SaveFullCommitNowhere(store, fc) == store

\* multiProvider.SaveFullCommit: every provider of the stack stores fc under
\* its height (the durable provider has no retention limit).
SaveFullCommit(store, fc) == [store EXCEPT ![fc.height] = fc]

\* vp.source.LatestFullCommit(vp.chainID, h, h)
SourceFetch(h) == LatestFullCommit(source, h, h)

\* ---------------------------------------------------- key-value provider
\* Heights a key of the provider can carry: a commit at h writes vs@(h+1).
KeyHeights == 1..(MaxHeight + 1)

\* The signed header of a full commit.  ValidatorsHash and NextValidatorsHash
\* are modelled by the validator sets they commit to (hashes do not collide);
\* VNone stands for the hash of no set in play.
NoSH == [height |-> 0, time |-> 0, signers |-> {}, vh |-> VNone, nvh |-> VNone]

SignedHeader(fc) ==
    [height |-> fc.height, time |-> fc.time, signers |-> fc.signers,
     vh |-> IF fc.hashOK THEN fc.vals ELSE VNone,
     nvh |-> fc.nextvals]

\* types.NewFullCommit(signedHeader, valset, nextValset); hashOK is what
\* ValidateFull will find when it hashes the two sets.
NewFullCommit(sh, valset, nextValset) ==
    [height |-> sh.height, time |-> sh.time, vals |-> valset, nextvals |-> nextValset,
     signers |-> sh.signers, hashOK |-> valset = sh.vh /\ nextValset = sh.nvh]

\* A provider over an empty database: keyspaces sh and vs by height.
EmptyDB == [sh |-> [h \in KeyHeights |-> NoSH], vs |-> [h \in KeyHeights |-> VNone]]

\* A key <<height, part>> stands for "{chainID}/{height:010d}/{part}".
HasKey(db, k) == IF k[2] = "sh" THEN db.sh[k[1]] # NoSH ELSE db.vs[k[1]] # VNone

\* db.ReverseIterator(signedHeaderKey(1), signedHeaderKey(1<<63-1) + 0x00):
\* every key of the chain by descending height, and at one height "vs"
\* before "sh" (reverse lexicographic order).
RECURSIVE KeysFrom(_, _)
KeysFrom(db, h) ==
    IF h < 1 THEN << >>
    ELSE (IF HasKey(db, <<h, "vs">>) THEN << <<h, "vs">> >> ELSE << >>)
         \o (IF HasKey(db, <<h, "sh">>) THEN << <<h, "sh">> >> ELSE << >>)
         \o KeysFrom(db, h - 1)

ReverseIterator(db) == KeysFrom(db, MaxHeight + 1)

Delete(db, k) ==
    IF k[2] = "sh" THEN [db EXCEPT !.sh[k[1]] = NoSH] ELSE [db EXCEPT !.vs[k[1]] = VNone]

\* The loop of deleteAfterN: numSeen counts the distinct heights of the keys
\* passed so far, whatever their part; a key is deleted once numSeen > after.
RECURSIVE deleteScan(_, _, _, _, _)
deleteScan(db, keys, minHeight, numSeen, after) ==
    IF keys = << >> THEN db
    ELSE LET k == Head(keys)
             lower == k[1] < minHeight
             seen == IF lower THEN numSeen + 1 ELSE numSeen
         IN deleteScan(IF seen > after THEN Delete(db, k) ELSE db, Tail(keys),
                       IF lower THEN k[1] ELSE minHeight, seen, after)

\* deleteAfterN that deletes the validator sets past the limit and leaves
\* the signed headers in place.
deleteAfterNKeepHeaders(db, after) ==
    [sh |-> db.sh,
     vs |-> deleteScan(db, ReverseIterator(db), MaxHeight + 2, 0, after).vs]

\* DB.deleteAfterN(chainID, after); minHeight starts above every height.
deleteAfterN(db, after) == deleteScan(db, ReverseIterator(db), MaxHeight + 2, 0, after)

\* SaveFullCommit whose batch leaves out the next validator set.
DBSaveFullCommitNoNext(db, lim, fc) ==
    LET written == [sh |-> [db.sh EXCEPT ![fc.height] = SignedHeader(fc)],
                    vs |-> [db.vs EXCEPT ![fc.height] = fc.vals]]
    IN IF lim > 0 THEN deleteAfterN(written, lim) ELSE written

\* SaveFullCommit that runs the retention pass ahead of the batch.
DBSaveFullCommitCollectFirst(db, lim, fc) ==
    LET kept == IF lim > 0 THEN deleteAfterN(db, lim) ELSE db
    IN [sh |-> [kept.sh EXCEPT ![fc.height] = SignedHeader(fc)],
        vs |-> [kept.vs EXCEPT ![fc.height] = fc.vals,
                               ![fc.height + 1] = fc.nextvals]]

\* DB.SaveFullCommit: one batch sets vs@h, vs@(h+1) and sh@h, then the
\* retention pass runs when a limit is set.
DBSaveFullCommit(db, lim, fc) ==
    LET written == [sh |-> [db.sh EXCEPT ![fc.height] = SignedHeader(fc)],
                    vs |-> [db.vs EXCEPT ![fc.height] = fc.vals,
                                         ![fc.height + 1] = fc.nextvals]]
    IN IF lim > 0 THEN deleteAfterN(written, lim) ELSE written

\* DB.fillFullCommit: the validator sets at height and height+1, or
\* ErrUnknownValidators when one is missing.
fillFullCommit(db, sh) ==
    IF db.vs[sh.height] = VNone \/ db.vs[sh.height + 1] = VNone
    THEN [err |-> "ErrUnknownValidators", fc |-> NoFC]
    ELSE [err |-> "ok",
          fc |-> NewFullCommit(sh, db.vs[sh.height], db.vs[sh.height + 1])]

\* DB.GetFullCommit(height)
DBGetFullCommit(db, h) ==
    IF db.sh[h] = NoSH THEN [err |-> "ErrCommitNotFound", fc |-> NoFC]
    ELSE fillFullCommit(db, db.sh[h])

\* DB.LatestFullCommit(): the first "sh" key of the reverse scan, filled.
DBLatestFullCommit(db) ==
    LET shKeys == SelectSeq(ReverseIterator(db), LAMBDA k : k[2] = "sh")
    IN IF shKeys = << >> THEN [err |-> "ErrCommitNotFound", fc |-> NoFC]
       ELSE fillFullCommit(db, db.sh[Head(shKeys)[1]])

\* ------------------------------------------------------- layered provider
\* The answer of one provider to a read: an error ("ok" for nil) and a commit.
NotFound == [err |-> "ErrCommitNotFound", fc |-> NoFC]

\* The loop of multiProvider.LatestFullCommit over the providers' answers:
\* ErrCommitNotFound is skipped, any other error returns at once, and of the
\* commits the one of greatest height is kept (the earlier one on a tie).
\* `queried` counts the providers asked.
RECURSIVE multiLatestScan(_, _, _)
multiLatestScan(answers, i, fc) ==
    IF i > Len(answers)
    THEN [err |-> IF fc = NoFC THEN "ErrCommitNotFound" ELSE "ok", fc |-> fc,
          queried |-> Len(answers)]
    ELSE IF answers[i].err = "ErrCommitNotFound" THEN multiLatestScan(answers, i + 1, fc)
    ELSE IF answers[i].err # "ok" THEN [err |-> answers[i].err, fc |-> fc, queried |-> i]
    ELSE multiLatestScan(answers, i + 1,
                         IF fc = NoFC THEN answers[i].fc
                         ELSE IF answers[i].fc.height > fc.height THEN answers[i].fc
                         ELSE fc)

\* LatestFullCommit that returns the commit of the first provider that has
\* one, whatever the others hold.
MultiLatestFirstFound(answers) ==
    LET found == {i \in 1..Len(answers) : answers[i].err # "ErrCommitNotFound"}
    IN IF found = {} THEN [err |-> "ErrCommitNotFound", fc |-> NoFC,
                           queried |-> Len(answers)]
       ELSE LET i == CHOOSE j \in found : \A k \in found : j <= k
            IN [err |-> answers[i].err, fc |-> answers[i].fc, queried |-> i]

\* multiProvider.LatestFullCommit()
MultiLatestFullCommit(answers) == multiLatestScan(answers, 1, NoFC)

\* The loop of multiProvider.GetFullCommit: the first answer that is not
\* ErrCommitNotFound is returned, commit or error.
RECURSIVE multiGetScan(_, _)
multiGetScan(answers, i) ==
    IF i > Len(answers) THEN [err |-> "ErrCommitNotFound", fc |-> NoFC,
                              queried |-> Len(answers)]
    ELSE IF answers[i].err = "ErrCommitNotFound" THEN multiGetScan(answers, i + 1)
    ELSE IF answers[i].err # "ok" THEN [err |-> answers[i].err, fc |-> NoFC, queried |-> i]
    ELSE [err |-> "ok", fc |-> answers[i].fc, queried |-> i]

\* GetFullCommit that skips every provider that fails, whatever its error.
MultiGetMaskingErrors(answers) ==
    LET found == {i \in 1..Len(answers) : answers[i].err = "ok"}
    IN IF found = {} THEN [err |-> "ErrCommitNotFound", fc |-> NoFC,
                           queried |-> Len(answers)]
       ELSE LET i == CHOOSE j \in found : \A k \in found : j <= k
            IN [err |-> "ok", fc |-> answers[i].fc, queried |-> i]

\* multiProvider.GetFullCommit(height)
MultiGetFullCommit(answers) == multiGetScan(answers, 1)

\* The trusted stack of the verifier: the provider in memory, then disk.
TrustedGet(m, d, h) == MultiGetFullCommit(<<DBGetFullCommit(m, h), DBGetFullCommit(d, h)>>)
TrustedLatest(m, d) == MultiLatestFullCommit(<<DBLatestFullCommit(m), DBLatestFullCommit(d)>>)

\* ------------------------------------------------------------ verifyAndSave
\* compareVotingPowers as an exact fraction ChangeNum / ChangeDen: the sum,
\* over the validators of newFC, of |new power share - old power share|.
Abs(x) == IF x < 0 THEN -x ELSE x

RECURSIVE SumDiff(_, _, _)
SumDiff(old, new, S) ==
    IF S = {} THEN 0
    ELSE LET x == CHOOSE y \in S : TRUE
         IN Abs(new[x] * TotalVotingPower(old) - old[x] * TotalVotingPower(new))
            + SumDiff(old, new, S \ {x})

ChangeNum(trustedFC, newFC) ==
    SumDiff(trustedFC.nextvals, newFC.vals, Members(newFC.vals))

ChangeDen(trustedFC, newFC) ==
    TotalVotingPower(trustedFC.nextvals) * TotalVotingPower(newFC.vals)

\* GetByAddress returns a nil validator for an address that is not in the
\* set; compareVotingPowers reads tval.VotingPower without a nil check.
NilValidator(trustedFC, newFC) ==
    \E x \in Members(newFC.vals) : x \notin Members(trustedFC.nextvals)

\* float64(1/3): the constant expression 1/3 is an integer division.
OneThird == 1 \div 3

\* change > float64(1/3)
TooMuchDrift(trustedFC, newFC) ==
    ChangeNum(trustedFC, newFC) > OneThird * ChangeDen(trustedFC, newFC)

\* The expiration gate off by one time unit.
ExpiredLate(trustedFC, t) == t - trustedFC.time > TrustPeriod + 1

\* vp.now().Sub(trustedFC.SignedHeader.Time) > vp.trustPeriod
Expired(trustedFC, t) == t - trustedFC.time > TrustPeriod

\* verifyAndSave that persists newFC before it verifies it.
verifyAndSaveFirst(trustedFC, newFC, t, store) ==
    LET Err(e) == [err |-> e, store |-> SaveFullCommit(store, newFC), saved |-> TRUE]
    IN IF trustedFC.height >= newFC.height THEN [Err("panic") EXCEPT !.store = store,
                                                                    !.saved = FALSE]
       ELSE IF Expired(trustedFC, t)
            THEN [Err("ErrCommitExpired") EXCEPT !.store = store, !.saved = FALSE]
       ELSE IF VerifyCommit(trustedFC.nextvals, newFC) # "ok"
            THEN Err(VerifyCommit(trustedFC.nextvals, newFC))
       ELSE IF ValidateFull(newFC) # "ok" THEN Err(ValidateFull(newFC))
       ELSE IF NilValidator(trustedFC, newFC) THEN Err("panic")
       ELSE IF TooMuchDrift(trustedFC, newFC) THEN Err("ErrValidatorChange")
       ELSE Err("ok")

\* verifyAndSave(trustedFC, newFC) at local time t over the trusted store:
\* the error it returns, the store it leaves, whether SaveFullCommit ran.
verifyAndSave(trustedFC, newFC, t, store) ==
    LET Err(e) == [err |-> e, store |-> store, saved |-> FALSE]
    IN IF trustedFC.height >= newFC.height THEN Err("panic")
       ELSE IF Expired(trustedFC, t) THEN Err("ErrCommitExpired")
       ELSE IF VerifyCommit(trustedFC.nextvals, newFC) # "ok"
            THEN Err(VerifyCommit(trustedFC.nextvals, newFC))
       ELSE IF newFC.height >= trustedFC.height + 1 /\ ValidateFull(newFC) # "ok"
            THEN Err(ValidateFull(newFC))
       ELSE IF NilValidator(trustedFC, newFC) THEN Err("panic")
       ELSE IF TooMuchDrift(trustedFC, newFC) THEN Err("ErrValidatorChange")
       ELSE [err |-> "ok", store |-> SaveFullCommit(store, newFC), saved |-> TRUE]

\* types.IsErrTooMuchChange(err)
IsErrTooMuchChange(e) == e = "ErrTooMuchChange"

\* ---------------------------------------------------------------- frames
\* A frame of fetchAndVerifyToHeightBisecting(h): where it stands, the
\* source commit it fetched and the trusted commit it last loaded.
NewFrame(h) == [h |-> h, pc |-> "fetch", src |-> NoFC, tfc |-> NoFC]

Top(st) == st[Len(st)]
Pop(st) == SubSeq(st, 1, Len(st) - 1)
SetTop(st, f) == [st EXCEPT ![Len(st)] = f]

NoResult == [res |-> "none", h |-> 0, verified |-> FALSE, height |-> 0]
NoVerify == [tfc |-> NoFC, fc |-> NoFC, now |-> 0, err |-> "none", saved |-> FALSE,
             changed |-> FALSE]
NoProof == [tfc |-> NoFC, now |-> 0, inStore |-> FALSE]

Bump(cnt, h) == [cnt EXCEPT ![h] = IF @ < MaxCount THEN @ + 1 ELSE @]


\* Header.Hash(): the hash of the header fields; the commit is not part of it.
HeaderHash(sh) == <<sh.height, sh.time, sh.vh, sh.nvh>>
NoHash == << >>

\* TrustOptions without a trusted height and hash and without a callback.
NoOptions == [trustHeight |-> 0, trustHash |-> NoHash, callback |-> "none"]

\* NewProvider: pc is the statement it stands at ("done" once it returned a
\* provider), trustCommit the anchor it chose, wrote whether it has called
\* SaveFullCommit.
BootDone == [pc |-> "done", gtc |-> "ok", trustCommit |-> NoSH, valset |-> VNone,
             nextValset |-> VNone, err |-> "ok", wrote |-> FALSE, tries |-> 0]

NoSave == [h |-> 0, n |-> 0]
NoItr == [active |-> FALSE, keys |-> << >>, minHeight |-> 0, numSeen |-> 0]
NoDBRes == [op |-> "none", err |-> "none", fc |-> NoFC]

\* The Verifier struct before NewVerifier has run: every field has its zero
\* value, and the zero value of `mode` is `sequential` (the first constant
\* of the iota block).  trustLevel is a fraction <<numerator, denominator>>.
ZeroVerifier == [opts |-> << >>, i |-> 0, pc |-> "idle", mode |-> "sequential",
                 trustLevel |-> <<0, 1>>, trusted |-> "nil", alternativeSources |-> FALSE]
NoInput == [sh |-> NoSH, chainOK |-> TRUE, basicOK |-> TRUE]
NoVerified == [err |-> "none", h |-> 0, n |-> 0, in |-> NoInput]
NoClient == [commitErr |-> FALSE, chainOK |-> TRUE, valsErr |-> {}]
NoSrcRes == [op |-> "none", h |-> 0, err |-> "none", fc |-> NoFC]
NoMRes == [op |-> "none", h |-> 0, err |-> "none", fc |-> NoFC, queried |-> 0]

\* The parts of the state an operation of another component leaves alone.
KvIdle ==
    /\ mem = EmptyDB
    /\ disk = EmptyDB
    /\ limit = CacheSize
    /\ lastSave = NoSave
    /\ itr = NoItr
    /\ dbres = NoDBRes
BootIdle ==
    /\ options = NoOptions
    /\ boot = BootDone
    /\ verifier = ZeroVerifier
MultiIdle ==
    /\ provs = << >>
    /\ mres = NoMRes
    /\ client = NoClient
    /\ srcres = NoSrcRes
VerifierIdleAt(t) ==
    /\ mode = "bisecting"
    /\ now = t
    /\ trusted = [h \in Heights |-> NoFC]
    /\ trustedFault = FALSE
    /\ height = 0
    /\ stack = [p \in Procs |-> << >>]
    /\ target = [p \in Procs |-> 0]
    /\ result = [p \in Procs |-> NoResult]
    /\ panicked = FALSE
    /\ lastVerify = [p \in Procs |-> NoVerify]
    /\ savedVia = [h \in Heights |-> NoProof]
    /\ fetchCount = [h \in Heights |-> 0]
    /\ saveCount = [h \in Heights |-> 0]
    /\ calls = 0
VerifierIdle == VerifierIdleAt(NowInit)

\* ------------------------------------------------------------------ state
\* The state NewProvider leaves when it trusted the commit at AnchorHeight.
InitMode(m) ==
    /\ source \in Chains
    /\ mode = m
    /\ now = NowInit
    /\ trusted = [h \in Heights |-> IF h = AnchorHeight THEN source[h] ELSE NoFC]
    /\ trustedFault = FALSE
    /\ height = 0
    /\ stack = [p \in Procs |-> << >>]
    /\ target = [p \in Procs |-> 0]
    /\ result = [p \in Procs |-> NoResult]
    /\ panicked = FALSE
    /\ lastVerify = [p \in Procs |-> NoVerify]
    /\ savedVia = [h \in Heights |-> NoProof]
    /\ fetchCount = [h \in Heights |-> 0]
    /\ saveCount = [h \in Heights |-> 0]
    /\ calls = 0
    /\ limit = CacheSize
    /\ lastSave = NoSave
    /\ itr = NoItr
    /\ dbres = NoDBRes
    /\ mem = DBSaveFullCommit(EmptyDB, limit, source[AnchorHeight])
    /\ disk = DBSaveFullCommit(EmptyDB, 0, source[AnchorHeight])
    /\ BootIdle
    /\ verified = NoVerified
    /\ MultiIdle

\* The verifier in bisecting mode, and in sequential mode.
Init == InitMode("bisecting")
InitSequential == InitMode("sequential")
\* A source that serves the chain forked at height 2.
InitForked == Init /\ source = Chain("Churn", 2, FALSE)

\* --------------------------------------------------------------- bootstrap
\* TrustOptions.Option1()
Option1(opts) == opts.trustHeight > 0 /\ Len(opts.trustHash) > 0

\* client.Commit(nil): the latest commit of the source.
LatestCommit(src) == SignedHeader(src[MaxHeight])

\* The trust options a caller may pass over the source chain src: no trusted
\* height (with or without a callback, which accepts or refuses), a trusted
\* height with the hash of its header or with the hash of another header,
\* and a trusted height without a hash.
OptionSet(src) ==
    {[trustHeight |-> 0, trustHash |-> NoHash, callback |-> cb] :
        cb \in {"none", "accept", "refuse"}}
    \cup {[trustHeight |-> th, trustHash |-> HeaderHash(SignedHeader(src[g])),
           callback |-> "none"] : th \in Heights, g \in Heights}
    \cup {[trustHeight |-> th, trustHash |-> NoHash, callback |-> "accept"] :
            th \in {AnchorHeight}}

\* getTrustedCommit that compares the hash before it checks the age.
getTrustedCommitHashFirst(opts, src, latestErr, trustErr) ==
    LET latestCommit == LatestCommit(src)
        Err(e) == [err |-> e, sh |-> NoSH]
    IN IF latestErr THEN Err("IOError")
       ELSE IF Option1(opts)
       THEN LET trustCommit == SignedHeader(src[opts.trustHeight])
            IN IF trustErr THEN Err("IOError")
               ELSE IF HeaderHash(trustCommit) # opts.trustHash
                    THEN Err("TrustHashMismatch")
               ELSE IF latestCommit.time - trustCommit.time > TrustPeriod
                    THEN Err("StaleTrust")
               ELSE [err |-> "ok", sh |-> trustCommit]
       ELSE IF opts.callback = "refuse" THEN Err("CallbackError")
       ELSE [err |-> "ok", sh |-> latestCommit]

\* getTrustedCommit(logger, client, options); latestErr and trustErr say
\* whether client.Commit(nil) and client.Commit(&TrustHeight) fail.
\* "StaleTrust" is the error "your trusted block height is older than the
\* trust period from latest block", "TrustHashMismatch" the error
\* "WARNING: expected hash ...".
getTrustedCommit(opts, src, latestErr, trustErr) ==
    LET latestCommit == LatestCommit(src)
        Err(e) == [err |-> e, sh |-> NoSH]
    IN IF latestErr THEN Err("IOError")
       ELSE IF Option1(opts)
       THEN LET trustCommit == SignedHeader(src[opts.trustHeight])
            IN IF trustErr THEN Err("IOError")
               ELSE IF latestCommit.time - trustCommit.time > TrustPeriod
                    THEN Err("StaleTrust")
               ELSE IF HeaderHash(trustCommit) # opts.trustHash
                    THEN Err("TrustHashMismatch")
               ELSE [err |-> "ok", sh |-> trustCommit]
       ELSE IF opts.callback = "refuse" THEN Err("CallbackError")
       ELSE [err |-> "ok", sh |-> latestCommit]

\* vp.source.ValidatorSet(chainID, h): the set of the source at h; the set
\* at the height above the latest commit is the one the latest announces.
SourceValidatorSet(src, h) ==
    IF h \in Heights THEN src[h].vals ELSE src[MaxHeight].nextvals

\* The local times NewProvider may be called at.
BootTimes == NowInit..(MaxTime + 1)

BootStart == [pc |-> "getTrustedCommit", gtc |-> "none", trustCommit |-> NoSH,
              valset |-> VNone, nextValset |-> VNone, err |-> "none",
              wrote |-> FALSE, tries |-> 0]

\* NewProvider is called over an empty trusted stack.
InitBoot ==
    /\ source \in Chains
    /\ options \in OptionSet(source)
    /\ boot = BootStart
    /\ verifier = ZeroVerifier
    /\ \E t \in BootTimes : VerifierIdleAt(t)
    /\ KvIdle
    /\ verified = NoVerified
    /\ MultiIdle

BootFail(e) == boot' = [boot EXCEPT !.pc = "failed", !.err = e]

\* The error return of a call in which vp.height is assigned ahead of the
\* error check.
FailAfterAssign(p, e) ==
    /\ stack' = [stack EXCEPT ![p] = << >>]
    /\ height' = target[p]
    /\ result' = [result EXCEPT ![p] =
                    [res |-> e, h |-> target[p], verified |-> TRUE, height |-> height']]
    /\ UNCHANGED panicked

\* The call of caller p fails with error e: every frame returns it, and
\* UpdateToHeight returns it before vp.height is assigned.
Fail(p, e) ==
    /\ stack' = [stack EXCEPT ![p] = << >>]
    /\ result' = [result EXCEPT ![p] =
                    [res |-> e, h |-> target[p], verified |-> TRUE, height |-> height]]
    /\ UNCHANGED <<height, panicked>>

\* The top frame of caller p returns without error.  The outermost frame
\* returns into UpdateToHeight, which assigns vp.height and returns nil; an
\* inner frame returns into the loop of its caller, which retries.
\* vp.height is written without a lock: of two racing writes either may be
\* the later one, which the interleaving of the callers' steps covers.
ReturnFrame(p) ==
    IF Len(stack[p]) = 1
    THEN /\ stack' = [stack EXCEPT ![p] = << >>]
         /\ height' = target[p]
         /\ result' = [result EXCEPT ![p] =
                         [res |-> "ok", h |-> target[p], verified |-> TRUE,
                          height |-> height']]
         /\ UNCHANGED panicked
    ELSE /\ stack' = [stack EXCEPT ![p] = Pop(@)]
         /\ UNCHANGED <<height, result, panicked>>

\* UpdateToHeight that enters the advance whatever the trusted store holds.
UpdateToHeightAlwaysAdvance(p, h) ==
    /\ ~panicked
    /\ stack[p] = << >>
    /\ calls < MaxCalls
    /\ calls' = calls + 1
    /\ target' = [target EXCEPT ![p] = h]
    /\ lastVerify' = [lastVerify EXCEPT ![p] = NoVerify]
    /\ stack' = [stack EXCEPT ![p] = <<NewFrame(h)>>]
    /\ result' = [result EXCEPT ![p] = NoResult]
    /\ UNCHANGED <<source, mode, trustedFault, now, trusted, height, panicked, savedVia,
                   fetchCount, saveCount>>
    /\ UNCHANGED <<kvVars, bootVars, verified, multiVars>>

\* UpdateToHeight(h) up to its first suspension: the lookup of h in the
\* trusted store; a hit returns nil at once, an error other than
\* ErrCommitNotFound is returned, a miss enters the advance.
UpdateToHeight(p, h) ==
    /\ ~panicked
    /\ stack[p] = << >>
    /\ calls < MaxCalls
    /\ calls' = calls + 1
    /\ target' = [target EXCEPT ![p] = h]
    /\ lastVerify' = [lastVerify EXCEPT ![p] = NoVerify]
    /\ IF trustedFault
       THEN /\ result' = [result EXCEPT ![p] =
                            [res |-> "IOError", h |-> h, verified |-> FALSE,
                             height |-> height]]
            /\ UNCHANGED stack
       ELSE IF LatestFullCommit(trusted, h, h) # NoFC
       THEN /\ result' = [result EXCEPT ![p] =
                            [res |-> "ok", h |-> h, verified |-> FALSE, height |-> height]]
            /\ UNCHANGED stack
       ELSE /\ stack' = [stack EXCEPT ![p] = <<NewFrame(h)>>]
            /\ result' = [result EXCEPT ![p] = NoResult]
    /\ UNCHANGED <<source, mode, trustedFault, now, trusted, height, panicked, savedVia,
                   fetchCount, saveCount>>
    /\ UNCHANGED <<kvVars, bootVars, verified, multiVars>>

\* fetchAndVerifyToHeightBisecting(h), lines 533-548: fetch the source
\* commit, require its height to be h, validate it.
Fetch(p) ==
    /\ ~panicked
    /\ stack[p] # << >>
    /\ Top(stack[p]).pc = "fetch"
    /\ LET f == Top(stack[p])
           sourceFC == SourceFetch(f.h)
       IN /\ fetchCount' = Bump(fetchCount, f.h)
          /\ IF sourceFC = NoFC THEN Fail(p, "ErrCommitNotFound")
             ELSE IF sourceFC.height # f.h THEN Fail(p, "ErrCommitNotFound")
             ELSE IF ValidateFull(sourceFC) # "ok" THEN Fail(p, ValidateFull(sourceFC))
             ELSE /\ stack' = [stack EXCEPT ![p] =
                                 SetTop(@, [f EXCEPT !.src = sourceFC, !.pc = "trusted"])]
                  /\ UNCHANGED <<height, result, panicked>>
    /\ UNCHANGED <<source, mode, trustedFault, now, trusted, target, lastVerify, savedVia, saveCount,
                   calls>>
    /\ UNCHANGED <<kvVars, bootVars, verified, multiVars>>

\* The head of the loop without the return when the store is at h already.
LoadTrustedNoReturn(p) ==
    /\ ~panicked
    /\ stack[p] # << >>
    /\ Top(stack[p]).pc = "trusted"
    /\ LET f == Top(stack[p])
           trustedFC == LatestFullCommit(trusted, 1, f.h)
       IN IF trustedFault THEN Fail(p, "IOError")
          ELSE IF trustedFC = NoFC THEN Fail(p, "ErrCommitNotFound")
          ELSE /\ stack' = [stack EXCEPT ![p] =
                              SetTop(@, [f EXCEPT !.tfc = trustedFC, !.pc = "verify"])]
               /\ UNCHANGED <<height, result, panicked>>
    /\ UNCHANGED <<source, mode, trustedFault, now, trusted, target, lastVerify, savedVia,
                   fetchCount, saveCount, calls>>
    /\ UNCHANGED <<kvVars, bootVars, verified, multiVars>>

\* The head of the loop, lines 553-562: load the highest trusted commit at
\* or below h; when it is at h there is nothing left to do.
LoadTrusted(p) ==
    /\ ~panicked
    /\ stack[p] # << >>
    /\ Top(stack[p]).pc = "trusted"
    /\ LET f == Top(stack[p])
           trustedFC == LatestFullCommit(trusted, 1, f.h)
       IN IF trustedFault THEN Fail(p, "IOError")
          ELSE IF trustedFC = NoFC THEN Fail(p, "ErrCommitNotFound")
          ELSE IF trustedFC.height = f.h THEN ReturnFrame(p)
          ELSE /\ stack' = [stack EXCEPT ![p] =
                              SetTop(@, [f EXCEPT !.tfc = trustedFC, !.pc = "verify"])]
               /\ UNCHANGED <<height, result, panicked>>
    /\ UNCHANGED <<source, mode, trustedFault, now, trusted, target, lastVerify, savedVia,
                   fetchCount, saveCount, calls>>
    /\ UNCHANGED <<kvVars, bootVars, verified, multiVars>>

\* The rest of the loop body, lines 564-590: verifyAndSave, then bisect on
\* ErrTooMuchChange, return any other error, or return the source commit.
VerifyAndSave(p) ==
    /\ ~panicked
    /\ stack[p] # << >>
    /\ Top(stack[p]).pc = "verify"
    /\ LET f == Top(stack[p])
           r == verifyAndSave(f.tfc, f.src, now, trusted)
           start == f.tfc.height
           end == f.src.height
           mid == (start + end) \div 2
       IN /\ trusted' = r.store
          /\ lastVerify' = [lastVerify EXCEPT ![p] =
                [tfc |-> f.tfc, fc |-> f.src, now |-> now, err |-> r.err,
                 saved |-> r.saved, changed |-> r.store # trusted]]
          /\ savedVia' = IF r.saved
                         THEN [savedVia EXCEPT ![f.src.height] =
                                 [tfc |-> f.tfc, now |-> now,
                                  inStore |-> LatestFullCommit(trusted, f.tfc.height,
                                                               f.tfc.height) = f.tfc]]
                         ELSE savedVia
          /\ saveCount' = IF r.saved THEN Bump(saveCount, f.src.height) ELSE saveCount
          /\ IF r.err = "panic"
             THEN /\ panicked' = TRUE
                  /\ UNCHANGED <<stack, height, result>>
             ELSE IF IsErrTooMuchChange(r.err)
             THEN IF ~(start < end)
                  THEN /\ panicked' = TRUE
                       /\ UNCHANGED <<stack, height, result>>
                  ELSE /\ stack' = [stack EXCEPT ![p] =
                                      Append(SetTop(@, [f EXCEPT !.pc = "trusted"]),
                                             NewFrame(mid))]
                       /\ UNCHANGED <<height, result, panicked>>
             ELSE IF r.err # "ok" THEN Fail(p, r.err)
             ELSE ReturnFrame(p)
          /\ mem' = IF r.saved THEN DBSaveFullCommit(mem, limit, f.src) ELSE mem
          /\ disk' = IF r.saved THEN DBSaveFullCommit(disk, 0, f.src) ELSE disk
    /\ UNCHANGED <<source, mode, trustedFault, now, target, fetchCount, calls>>
    /\ UNCHANGED <<limit, lastSave, itr, dbres, bootVars, verified, multiVars>>

\* The local clock advances.
Tick ==
    /\ ~panicked
    /\ now < MaxTime
    /\ now' = now + 1
    /\ UNCHANGED <<source, mode, trustedFault, trusted, height, stack, target, result, panicked,
                   lastVerify, savedVia, fetchCount, saveCount, calls>>
    /\ UNCHANGED <<kvVars, bootVars, verified, multiVars>>

\* NewProvider, lines 176-182: initProvider, then getTrustedCommit with its
\* two client.Commit calls, either of which may fail.
BootGetTrustedCommit ==
    /\ boot.pc = "getTrustedCommit"
    /\ \E latestErr, trustErr \in BOOLEAN :
          LET r == getTrustedCommit(options, source, latestErr, trustErr)
          IN boot' = IF r.err = "ok"
                     THEN [boot EXCEPT !.pc = "fillValset", !.gtc = "ok",
                                       !.trustCommit = r.sh]
                     ELSE [boot EXCEPT !.pc = "failed", !.gtc = r.err, !.err = r.err]
    /\ UNCHANGED <<options, verifier, verifierVars, kvVars, verified, multiVars>>

\* fillValsetAndSaveFC, lines 367-391: fetch the validator set at the height
\* of the anchor, then loop on the set of the next height for as long as the
\* source answers that it does not have it (which it may above its latest
\* commit).
BootFetchValsets ==
    /\ boot.pc = "fillValset"
    /\ LET h == boot.trustCommit.height
       IN \E o \in {"found", "valsetError", "notFoundYet", "nextError"} :
             CASE o = "valsetError" -> BootFail("ErrUnknownValidators")
               [] o = "nextError" -> BootFail("IOError")
               [] o = "notFoundYet" ->
                     /\ h + 1 > MaxHeight
                     /\ boot' = [boot EXCEPT !.tries = IF @ < MaxCount THEN @ + 1 ELSE @]
               [] OTHER ->
                     boot' = [boot EXCEPT !.pc = "validate",
                                          !.valset = SourceValidatorSet(source, h),
                                          !.nextValset = SourceValidatorSet(source, h + 1)]
    /\ UNCHANGED <<options, verifier, verifierVars, kvVars, verified, multiVars>>

\* fillValsetAndSaveFC, lines 393-412: assemble the full commit, validate
\* it, save it on the trusted stack.
BootValidateAndSave ==
    /\ boot.pc = "validate"
    /\ LET fc == NewFullCommit(boot.trustCommit, boot.valset, boot.nextValset)
       IN IF ValidateFull(fc) # "ok"
          THEN /\ BootFail(ValidateFull(fc))
               /\ UNCHANGED <<trusted, mem, disk, saveCount>>
          ELSE /\ trusted' = SaveFullCommit(trusted, fc)
               /\ mem' = DBSaveFullCommit(mem, limit, fc)
               /\ disk' = DBSaveFullCommit(disk, 0, fc)
               /\ saveCount' = Bump(saveCount, fc.height)
               /\ boot' = [boot EXCEPT !.pc = "sanity", !.wrote = TRUE]
    /\ UNCHANGED <<source, mode, trustedFault, now, height, stack, target, result, panicked,
                   lastVerify, savedVia, fetchCount, calls>>
    /\ UNCHANGED <<limit, lastSave, itr, dbres, options, verifier, verified, multiVars>>

\* NewProvider, lines 192-201: the sanity check on the local clock, which
\* panics, and the choice between returning and updating to the latest.
BootSanity ==
    /\ boot.pc = "sanity"
    /\ IF now - boot.trustCommit.time <= 0
       THEN /\ panicked' = TRUE
            /\ boot' = [boot EXCEPT !.pc = "panic", !.err = "panic"]
       ELSE /\ boot' = IF Option1(options) THEN [boot EXCEPT !.pc = "update"]
                       ELSE [boot EXCEPT !.pc = "done", !.err = "ok"]
            /\ UNCHANGED panicked
    /\ UNCHANGED <<source, mode, trustedFault, now, trusted, height, stack, target, result,
                   lastVerify, savedVia, fetchCount, saveCount, calls>>
    /\ UNCHANGED <<options, verifier, kvVars, verified, multiVars>>

\* NewProvider, lines 203-207: fetch the latest commit and enter
\* UpdateToHeight for its height (as caller 1), up to its first suspension.
BootUpdate ==
    /\ boot.pc = "update"
    /\ \E latestErr \in BOOLEAN :
          IF latestErr
          THEN /\ BootFail("IOError")
               /\ UNCHANGED <<target, lastVerify, result, stack, calls>>
          ELSE LET h == LatestCommit(source).height
               IN /\ boot' = [boot EXCEPT !.pc = "updating"]
                  /\ calls' = calls + 1
                  /\ target' = [target EXCEPT ![1] = h]
                  /\ lastVerify' = [lastVerify EXCEPT ![1] = NoVerify]
                  /\ IF LatestFullCommit(trusted, h, h) # NoFC
                     THEN /\ result' = [result EXCEPT ![1] =
                                          [res |-> "ok", h |-> h, verified |-> FALSE,
                                           height |-> height]]
                          /\ UNCHANGED stack
                     ELSE /\ stack' = [stack EXCEPT ![1] = <<NewFrame(h)>>]
                          /\ result' = [result EXCEPT ![1] = NoResult]
    /\ UNCHANGED <<source, mode, trustedFault, now, trusted, height, panicked, savedVia,
                   fetchCount, saveCount>>
    /\ UNCHANGED <<options, verifier, kvVars, verified, multiVars>>

\* NewProvider, lines 208-213: UpdateToHeight has returned; its error, if
\* any, is the error of NewProvider.
BootReturn ==
    /\ boot.pc = "updating"
    /\ ~panicked
    /\ stack[1] = << >>
    /\ boot' = IF result[1].res = "ok" THEN [boot EXCEPT !.pc = "done", !.err = "ok"]
               ELSE [boot EXCEPT !.pc = "failed", !.err = result[1].res]
    /\ UNCHANGED <<options, verifier, verifierVars, kvVars, verified, multiVars>>

NextBoot ==
    \/ BootGetTrustedCommit
    \/ BootFetchValsets
    \/ BootValidateAndSave
    \/ BootSanity
    \/ BootUpdate
    \/ BootReturn
    \/ Fetch(1)
    \/ LoadTrusted(1)
    \/ VerifyAndSave(1)

\* ------------------------------------------------------------------ Verify
\* Provider.ValidatorSet that tries to sync: on a miss it fetches the commit
\* at h from the source and stores it.
ValidatorSetSyncing(m, d, tr, src, h) ==
    IF m.vs[h] # VNone \/ d.vs[h] # VNone \/ h \notin Heights
    THEN [valset |-> IF m.vs[h] # VNone THEN m.vs[h] ELSE d.vs[h],
          mem |-> m, disk |-> d, trusted |-> tr, fetched |-> {}]
    ELSE [valset |-> src[h].vals, mem |-> DBSaveFullCommit(m, 0, src[h]),
          disk |-> DBSaveFullCommit(d, 0, src[h]),
          trusted |-> SaveFullCommit(tr, src[h]), fetched |-> {h}]

\* Provider.ValidatorSet(chainID, height): vp.trusted.ValidatorSet, the set
\* under vs@height of the first provider of the stack that has one (VNone:
\* an error).  It returns the stack as it found it and fetches nothing.
ValidatorSet(m, d, tr, src, h) ==
    [valset |-> IF m.vs[h] # VNone THEN m.vs[h] ELSE d.vs[h],
     mem |-> m, disk |-> d, trusted |-> tr, fetched |-> {}]

\* The signed headers a caller may hand to Verify: those of the chain the
\* source serves and those of a fork of it, each with the right chain id and
\* well-formed, or with one of the two wrong.
VerifyInputs ==
    {[sh |-> SignedHeader(c[h]), chainOK |-> k[1], basicOK |-> k[2]] :
        c \in {source, Chain("Churn", 2, FALSE)}, h \in Heights,
        k \in {<<TRUE, TRUE>>, <<FALSE, TRUE>>, <<TRUE, FALSE>>}}

\* The chains Verify is exercised over.
VerifyChains == {Chain("Scaled", 2, TRUE), Chain("Churn", 3, TRUE), Chain("Scaled", 3, FALSE)}

InitVerify == Init /\ source \in VerifyChains

\* Verify without the comparison of the header's height with vp.height.
VerifyAnyHeight(in, valSet, vpHeight) ==
    IF ~in.chainOK THEN "ErrChainID"
    ELSE IF valSet = VNone THEN "ErrUnknownValidators"
    ELSE IF in.sh.vh # valSet THEN "ErrUnexpectedValidators"
    ELSE IF ~in.basicOK THEN "ErrValidateBasic"
    ELSE VerifyCommit(valSet, in.sh)

\* Provider.Verify(signedHeader), lines 297-327: the error it returns.
Verify(in, valSet, vpHeight) ==
    IF ~in.chainOK THEN "ErrChainID"
    ELSE IF valSet = VNone THEN "ErrUnknownValidators"
    ELSE IF in.sh.height < vpHeight THEN "ErrHeight"
    ELSE IF in.sh.vh # valSet THEN "ErrUnexpectedValidators"
    ELSE IF ~in.basicOK THEN "ErrValidateBasic"
    ELSE VerifyCommit(valSet, in.sh)

\* A caller runs Verify on a signed header.
VerifyCall(in) ==
    /\ ~panicked
    /\ calls < MaxCalls
    /\ calls' = calls + 1
    /\ LET r == ValidatorSet(mem, disk, trusted, source, in.sh.height)
       IN /\ verified' = [err |-> Verify(in, IF in.chainOK THEN r.valset ELSE VNone,
                                         height),
                          h |-> in.sh.height, n |-> verified.n + 1, in |-> in]
          /\ mem' = r.mem
          /\ disk' = r.disk
          /\ trusted' = r.trusted
          /\ fetchCount' = [h \in Heights |->
                               IF h \in r.fetched THEN Bump(fetchCount, h)[h]
                               ELSE fetchCount[h]]
    /\ UNCHANGED <<source, mode, trustedFault, now, height, stack, target, result, panicked,
                   lastVerify, savedVia, saveCount>>
    /\ UNCHANGED <<limit, lastSave, itr, dbres, bootVars, multiVars>>

NextVerify ==
    \/ \E p \in Procs, h \in Heights : UpdateToHeight(p, h)
    \/ \E p \in Procs : Fetch(p)
    \/ \E p \in Procs : LoadTrusted(p)
    \/ \E p \in Procs : VerifyAndSave(p)
    \/ \E in \in VerifyInputs : VerifyCall(in)

\* ------------------------------------------- trusted store that may fail
\* The reads of the trusted store start or stop failing (an I/O error of
\* the database below it).
TrustedFails ==
    /\ ~panicked
    /\ trustedFault' = ~trustedFault
    /\ UNCHANGED <<source, mode, now, trusted, height, stack, target, result, panicked,
                   lastVerify, savedVia, fetchCount, saveCount, calls>>
    /\ UNCHANGED <<kvVars, bootVars, verified, multiVars>>

InitShort == Init /\ source \in VerifyChains

NextShort ==
    \/ \E p \in Procs, h \in Heights : UpdateToHeight(p, h)
    \/ \E p \in Procs : Fetch(p)
    \/ \E p \in Procs : LoadTrusted(p)
    \/ \E p \in Procs : VerifyAndSave(p)
    \/ TrustedFails

\* ------------------------------------------- key-value provider under test
\* db.New(...).SetLimit(limit) over an empty database; the commits saved
\* are those of the chain `source`.
InitDB ==
    /\ source \in Chains
    /\ limit \in 0..MaxLimit
    /\ lastSave = NoSave
    /\ itr = NoItr
    /\ dbres = NoDBRes
    /\ mem = EmptyDB
    /\ disk = EmptyDB
    /\ VerifierIdle
    /\ BootIdle
    /\ verified = NoVerified
    /\ MultiIdle

\* DB.SaveFullCommit(fc) with the commit of the chain at height h.
DBSave(h) ==
    /\ mem' = DBSaveFullCommit(mem, limit, source[h])
    /\ saveCount' = Bump(saveCount, h)
    /\ lastSave' = [h |-> h, n |-> IF lastSave.h # h THEN 1
                                    ELSE IF lastSave.n < MaxCount THEN lastSave.n + 1
                                    ELSE lastSave.n]
    /\ UNCHANGED <<source, mode, trustedFault, now, trusted, height, stack, target, result, panicked,
                   lastVerify, savedVia, fetchCount, calls>>
    /\ UNCHANGED <<disk, limit, itr, dbres, bootVars, verified, multiVars>>

NextDB == \E h \in Heights : DBSave(h)

\* The same provider fed from a chain whose validator set changes, announced
\* by the header before the change or not.
InitDBChurn == InitDB /\ source \in {Chain("Churn", 2, ann) : ann \in BOOLEAN}

\* ------------------------------- key-value provider, retention step by step
\* The database a provider is opened over: the commits of the chain at the
\* heights S, saved by a provider without a limit.
RECURSIVE SaveAll(_, _, _)
SaveAll(db, src, S) ==
    IF S = {} THEN db
    ELSE LET h == CHOOSE g \in S : \A k \in S : g <= k
         IN SaveAll(DBSaveFullCommit(db, 0, src[h]), src, S \ {h})

\* db.New(chainID, db).SetLimit(limit) over such a database.
InitDBScan ==
    /\ source = Chain("Churn", 2, TRUE)
    /\ limit \in 0..MaxLimit
    /\ mem \in {SaveAll(EmptyDB, source, S) : S \in SUBSET Heights}
    /\ disk = EmptyDB
    /\ lastSave = NoSave
    /\ itr = NoItr
    /\ dbres = NoDBRes
    /\ VerifierIdle
    /\ BootIdle
    /\ verified = NoVerified
    /\ MultiIdle

\* DB.SaveFullCommit up to batch.WriteSync(); with a limit, deleteAfterN
\* opens its iterator over the keys now present.
DBBatch(h) ==
    /\ ~itr.active
    /\ mem' = DBSaveFullCommit(mem, 0, source[h])
    /\ itr' = IF limit > 0
              THEN [active |-> TRUE, keys |-> ReverseIterator(mem'),
                    minHeight |-> MaxHeight + 2, numSeen |-> 0]
              ELSE NoItr
    /\ lastSave' = [h |-> h, n |-> 1]
    /\ dbres' = NoDBRes
    /\ UNCHANGED <<disk, limit, verifierVars, bootVars, verified, multiVars>>

\* One round of the loop of deleteAfterN: one key is passed, counted and
\* deleted or kept; the call returns when the iterator is exhausted.
DBDeleteStep ==
    /\ itr.active
    /\ IF itr.keys = << >>
       THEN /\ itr' = NoItr
            /\ UNCHANGED mem
       ELSE LET k == Head(itr.keys)
                lower == k[1] < itr.minHeight
                seen == IF lower THEN itr.numSeen + 1 ELSE itr.numSeen
            IN /\ mem' = IF seen > limit THEN Delete(mem, k) ELSE mem
               /\ itr' = [itr EXCEPT !.keys = Tail(@), !.numSeen = seen,
                                      !.minHeight = IF lower THEN k[1] ELSE @]
    /\ dbres' = NoDBRes
    /\ UNCHANGED <<disk, limit, lastSave, verifierVars, bootVars, verified, multiVars>>

\* DB.LatestFullCommit() called by another goroutine.
DBLatest ==
    /\ LET r == DBLatestFullCommit(mem)
       IN dbres' = [op |-> "latest", err |-> r.err, fc |-> r.fc]
    /\ UNCHANGED <<mem, disk, limit, lastSave, itr, verifierVars, bootVars, verified,
                   multiVars>>

NextDBScan ==
    \/ \E h \in Heights : DBBatch(h)
    \/ DBDeleteStep
    \/ DBLatest

\* ------------------------------------------------ HTTP provider under test
\* How the RPC client of the provider answers: Commit fails with a transport
\* error or not, the chain id of its header is the provider's or not, and
\* the heights at which Validators fails with a transport error.
ClientStates ==
    {[commitErr |-> ce, chainOK |-> ck, valsErr |-> S] :
        ce \in BOOLEAN, ck \in BOOLEAN, S \in SUBSET KeyHeights}

\* HTTP.getValidatorSet(chainID, height)
HTTPgetValidatorSet(cl, src, h) ==
    IF h \in cl.valsErr THEN [err |-> "ErrUnknownValidators", valset |-> VNone]
    ELSE [err |-> "ok", valset |-> SourceValidatorSet(src, h)]

\* HTTP.GetFullCommit(height), with fillFullCommit.
HTTPGetFullCommit(cl, src, h) ==
    IF cl.commitErr THEN [err |-> "TransportError", fc |-> NoFC]
    ELSE IF ~cl.chainOK THEN [err |-> "ErrChainID", fc |-> NoFC]
    ELSE LET sh == SignedHeader(src[h])
             valset == HTTPgetValidatorSet(cl, src, h)
             nextValset == HTTPgetValidatorSet(cl, src, h + 1)
         IN IF valset.err # "ok" THEN [err |-> valset.err, fc |-> NoFC]
            ELSE IF nextValset.err # "ok" THEN [err |-> nextValset.err, fc |-> NoFC]
            ELSE [err |-> "ok",
                  fc |-> NewFullCommit(sh, valset.valset, nextValset.valset)]

\* NewHTTPWithClient(chainID, client)
InitSource ==
    /\ source = Chain("Churn", 2, TRUE)
    /\ client \in ClientStates
    /\ srcres = NoSrcRes
    /\ provs = << >>
    /\ mres = NoMRes
    /\ VerifierIdle
    /\ KvIdle
    /\ BootIdle
    /\ verified = NoVerified

\* A caller runs GetFullCommit(h) on the provider.
SourceGet(h) ==
    /\ LET r == HTTPGetFullCommit(client, source, h)
       IN srcres' = [op |-> "get", h |-> h, err |-> r.err, fc |-> r.fc]
    /\ UNCHANGED <<client, provs, mres, verifierVars, kvVars, bootVars, verified>>

NextSource == \E h \in Heights : SourceGet(h)

\* --------------------------------------------- layered provider under test
\* A provider of the stack: the heights it holds a commit of the chain at,
\* and whether its reads fail (with an error that is not ErrCommitNotFound).
ProviderStates ==
    {[have |-> S, fault |-> f] : S \in {T \in SUBSET Heights : Cardinality(T) <= 2},
                                 f \in BOOLEAN}

\* p.LatestFullCommit() and p.GetFullCommit(h) of one provider.
ProviderLatest(src, p) ==
    IF p.fault THEN [err |-> "IOError", fc |-> NoFC]
    ELSE IF p.have = {} THEN NotFound
    ELSE [err |-> "ok", fc |-> src[CHOOSE h \in p.have : \A g \in p.have : g <= h]]

ProviderGet(src, p, h) ==
    IF p.fault THEN [err |-> "IOError", fc |-> NoFC]
    ELSE IF h \notin p.have THEN NotFound
    ELSE [err |-> "ok", fc |-> src[h]]

\* NewMultiProvider(providers...) over one to MaxProviders providers.
InitMulti ==
    /\ source = Chain("Scaled", 2, TRUE)
    /\ provs \in UNION {[1..n -> ProviderStates] : n \in 1..MaxProviders}
    /\ mres = NoMRes
    /\ client = NoClient
    /\ srcres = NoSrcRes
    /\ VerifierIdle
    /\ KvIdle
    /\ BootIdle
    /\ verified = NoVerified

\* multiProvider.LatestFullCommit()
MultiLatest ==
    /\ LET r == MultiLatestFullCommit([i \in 1..Len(provs) |->
                                          ProviderLatest(source, provs[i])])
       IN mres' = [op |-> "latest", h |-> 0, err |-> r.err, fc |-> r.fc,
                   queried |-> r.queried]
    /\ UNCHANGED <<provs, client, srcres, verifierVars, kvVars, bootVars, verified>>

\* multiProvider.GetFullCommit(h)
MultiGet(h) ==
    /\ LET r == MultiGetFullCommit([i \in 1..Len(provs) |->
                                       ProviderGet(source, provs[i], h)])
       IN mres' = [op |-> "get", h |-> h, err |-> r.err, fc |-> r.fc,
                   queried |-> r.queried]
    /\ UNCHANGED <<provs, client, srcres, verifierVars, kvVars, bootVars, verified>>

NextMulti ==
    \/ MultiLatest
    \/ \E h \in Heights : MultiGet(h)

\* p.SaveFullCommit(fc) of one provider, fc being the commit of the chain at
\* h: a provider that fails returns its error before it writes anything
\* (DB.SaveFullCommit returns the encoding errors ahead of batch.WriteSync).
ProviderSave(p, h) ==
    IF p.fault THEN [err |-> "IOError", p |-> p]
    ELSE [err |-> "ok", p |-> [p EXCEPT !.have = @ \cup {h}]]

\* The loop of multiProvider.SaveFullCommit: the providers are written in
\* order and the first error aborts the loop.
RECURSIVE multiSaveScan(_, _, _)
multiSaveScan(ps, i, h) ==
    IF i > Len(ps) THEN [err |-> "ok", provs |-> ps, queried |-> Len(ps)]
    ELSE LET r == ProviderSave(ps[i], h)
         IN IF r.err # "ok" THEN [err |-> r.err, provs |-> ps, queried |-> i]
            ELSE multiSaveScan([ps EXCEPT ![i] = r.p], i + 1, h)

\* SaveFullCommit that writes every provider and reports the first error
\* afterwards.
MultiSaveEveryProvider(ps, h) ==
    LET failing == {i \in 1..Len(ps) : ProviderSave(ps[i], h).err # "ok"}
    IN [err |-> IF failing = {} THEN "ok" ELSE "IOError",
        provs |-> [i \in 1..Len(ps) |-> ProviderSave(ps[i], h).p],
        queried |-> Len(ps)]

\* multiProvider.SaveFullCommit(fc)
MultiSaveFullCommit(ps, h) == multiSaveScan(ps, 1, h)

\* The stacks a save is tried on: each provider holds at most one commit.
InitMultiSave ==
    /\ source = Chain("Scaled", 2, TRUE)
    /\ provs \in UNION {[1..n -> {p \in ProviderStates : Cardinality(p.have) <= 1}] :
                           n \in 1..MaxProviders}
    /\ mres = NoMRes
    /\ client = NoClient
    /\ srcres = NoSrcRes
    /\ VerifierIdle
    /\ KvIdle
    /\ BootIdle
    /\ verified = NoVerified

\* multiProvider.SaveFullCommit(fc) with the commit of the chain at h.
MultiSave(h) ==
    /\ LET r == MultiSaveFullCommit(provs, h)
       IN /\ provs' = r.provs
          /\ mres' = [op |-> "save", h |-> h, err |-> r.err, fc |-> source[h],
                      queried |-> r.queried]
    /\ UNCHANGED <<client, srcres, verifierVars, kvVars, bootVars, verified>>

NextMultiSave == \E h \in Heights : MultiSave(h)

\* -------------------------------------------------------------- NewVerifier
\* The options a caller can pass, BisectingVerification with a trust level
\* below, inside and above [1/3, 1].
TrustLevels == {<<1, 4>>, <<1, 3>>, <<1, 1>>, <<2, 1>>}

OptionKinds ==
    {[kind |-> k, level |-> <<0, 1>>] :
        k \in {"SequentialVerification", "DefaultBisectingVerification", "Trusted",
               "AlternativeSources"}}
    \cup {[kind |-> "BisectingVerification", level |-> l] : l \in TrustLevels}

\* BisectingVerification(trustLevel): the range check compares with the
\* constant expression 1/3, an integer division.
BisectingVerification(v, level) ==
    IF level[1] > level[2] \/ level[1] < OneThird * level[2]
    THEN [v EXCEPT !.pc = "panic"]
    ELSE [v EXCEPT !.mode = "bisecting", !.trustLevel = level]

\* o(v) for one option.
ApplyOption(v, o) ==
    CASE o.kind = "SequentialVerification" -> [v EXCEPT !.mode = "sequential"]
      [] o.kind = "BisectingVerification" -> BisectingVerification(v, o.level)
      [] o.kind = "DefaultBisectingVerification" ->
            BisectingVerification(v, <<OneThird, 1>>)
      [] o.kind = "Trusted" -> [v EXCEPT !.mode = "bisecting"]
      [] o.kind = "AlternativeSources" -> [v EXCEPT !.alternativeSources = TRUE]

\* NewVerifier(chainID, trustOptions, source, options...) is entered.
InitNew ==
    /\ source = Chain("Scaled", 2, TRUE)
    /\ options = NoOptions
    /\ boot = BootDone
    /\ verifier \in {[ZeroVerifier EXCEPT !.opts = os, !.i = 1, !.pc = "options"] :
                        os \in UNION {[1..n -> OptionKinds] : n \in 0..MaxOptions}}
    /\ VerifierIdle
    /\ KvIdle
    /\ verified = NoVerified
    /\ MultiIdle

\* One round of `for _, o := range options { o(v) }`.
NewApplyOption ==
    /\ verifier.pc = "options"
    /\ verifier.i <= Len(verifier.opts)
    /\ verifier' = [ApplyOption(verifier, verifier.opts[verifier.i]) EXCEPT !.i = @ + 1]
    /\ UNCHANGED <<options, boot, verifierVars, kvVars, verified, multiVars>>

\* After the loop: the default trusted stack when v.trusted is still nil.
NewDefaultTrusted ==
    /\ verifier.pc = "options"
    /\ verifier.i > Len(verifier.opts)
    /\ verifier' = [verifier EXCEPT !.pc = "done",
                                    !.trusted = IF @ = "nil" THEN "default" ELSE @]
    /\ UNCHANGED <<options, boot, verifierVars, kvVars, verified, multiVars>>

NextNew ==
    \/ NewApplyOption
    \/ NewDefaultTrusted

Next ==
    \/ \E p \in Procs, h \in Heights : UpdateToHeight(p, h)
    \/ \E p \in Procs : Fetch(p)
    \/ \E p \in Procs : LoadTrusted(p)
    \/ \E p \in Procs : VerifyAndSave(p)
    \/ Tick

Spec == Init /\ [][Next]_vars
SpecSequential == InitSequential /\ [][Next]_vars
SpecBoot == InitBoot /\ [][NextBoot]_vars
SpecVerify == InitVerify /\ [][NextVerify]_vars
SpecShort == InitShort /\ [][NextShort]_vars
SpecNew == InitNew /\ [][NextNew]_vars
SpecDB == InitDB /\ [][NextDB]_vars
SpecDBChurn == InitDBChurn /\ [][NextDB]_vars
SpecDBScan == InitDBScan /\ [][NextDBScan]_vars
SpecSource == InitSource /\ [][NextSource]_vars
SpecMulti == InitMulti /\ [][NextMulti]_vars
SpecMultiSave == InitMultiSave /\ [][NextMultiSave]_vars


\* The scheduler runs every goroutine that can take a step, and the source
\* and the trusted store answer every request.
FairSpec ==
    /\ InitForked
    /\ [][Next]_vars
    /\ \A p \in Procs : WF_vars(Fetch(p) \/ LoadTrusted(p) \/ VerifyAndSave(p))

\* ------------------------------------------------------------------ claims

\* C1: expiration safety.  No commit is in the trusted store that was saved
\* against a trusted commit older than the trust period at the time of the
\* check; a verification step whose trusted commit is that old returns
\* ErrCommitExpired, does not call SaveFullCommit, leaves the store as it
\* was, and the UpdateToHeight call returns that error.
C1_ExpirationSafety ==
    /\ \A h \in Heights :
          savedVia[h] # NoProof => savedVia[h].now - savedVia[h].tfc.time <= TrustPeriod
    /\ \A p \in Procs :
          LET v == lastVerify[p]
          IN (v # NoVerify /\ v.now - v.tfc.time > TrustPeriod) =>
                /\ v.err = "ErrCommitExpired"
                /\ ~v.saved
                /\ ~v.changed
                /\ stack[p] = << >>
                /\ result[p].res = "ErrCommitExpired"

\* C1 witness: a verification step ran against an expired trusted commit.
C1_Witness ==
    \E p \in Procs :
        /\ lastVerify[p] # NoVerify
        /\ lastVerify[p].now - lastVerify[p].tfc.time > TrustPeriod
        /\ result[p].res = "ErrCommitExpired"

\* C2: trust soundness.  Every commit the advance wrote to the trusted store
\* (every stored commit but the bootstrap anchor) passes ValidateFull and
\* was accepted by VerifyCommit of the NextValidators of a commit of lower
\* height that was in the trusted store when it was written.
C2_TrustSoundness ==
    \A h \in Heights :
        (trusted[h] # NoFC /\ h # AnchorHeight) =>
            /\ savedVia[h] # NoProof
            /\ ValidateFull(trusted[h]) = "ok"
            /\ VerifyCommit(savedVia[h].tfc.nextvals, trusted[h]) = "ok"
            /\ 0 < savedVia[h].tfc.height
            /\ savedVia[h].tfc.height < h
            /\ savedVia[h].inStore

\* C2 witness: a commit was saved by skipping over at least one height.
C2_Witness ==
    \E h \in Heights :
        /\ trusted[h] # NoFC
        /\ savedVia[h] # NoProof
        /\ savedVia[h].tfc.height + 1 < h

\* C3: success postcondition.  When UpdateToHeight(H) has returned nil the
\* trusted store holds a commit at exactly H, and when the call ran the
\* advance vp.height was H at the return.
C3_SuccessPostcondition ==
    \A p \in Procs :
        (stack[p] = << >> /\ result[p].res = "ok") =>
            /\ LatestFullCommit(trusted, result[p].h, result[p].h) # NoFC
            /\ LatestFullCommit(trusted, result[p].h, result[p].h).height = result[p].h
            /\ result[p].verified => result[p].height = result[p].h

\* C3 witness: a call that ran the advance returned nil.
C3_Witness ==
    \E p \in Procs :
        /\ stack[p] = << >>
        /\ result[p].res = "ok"
        /\ result[p].verified
        /\ result[p].h > AnchorHeight

\* C4 (as claimed): a verification step with an unexpired trusted commit, a
\* source commit that passes ValidateFull and signers holding at least 1/3
\* of the power of the trusted NextValidators accepts and saves the commit,
\* whatever the power shares of the two validator sets.
C4_AcceptanceByTrustLevel ==
    \A p \in Procs :
        LET v == lastVerify[p]
        IN (/\ v # NoVerify
            /\ v.now - v.tfc.time <= TrustPeriod
            /\ ValidateFull(v.fc) = "ok"
            /\ VerifyCommitTrusting(v.tfc.nextvals, v.fc, 1, 3) = "ok")
           => (v.err = "ok" /\ v.saved)

\* C5 (as claimed): when a frame is back at the head of its loop after a
\* bisection, the midpoint m = (tfc.height + H) / 2 it recursed to is in the
\* trusted store and lies strictly between tfc.height and H.
C5_BisectionStep ==
    \A p \in Procs :
        stack[p] # << >> =>
            LET f == Top(stack[p])
                m == (f.tfc.height + f.h) \div 2
            IN (f.pc = "trusted" /\ f.tfc # NoFC) =>
                  /\ LatestFullCommit(trusted, m, m) # NoFC
                  /\ f.tfc.height < m
                  /\ m < f.h

\* C5 witness: a bisection to a midpoint strictly inside the interval
\* returned and the midpoint is trusted.
C5_Witness ==
    \E p \in Procs :
        /\ stack[p] # << >>
        /\ Top(stack[p]).pc = "trusted"
        /\ Top(stack[p]).tfc # NoFC
        /\ Top(stack[p]).tfc.height < (Top(stack[p]).tfc.height + Top(stack[p]).h) \div 2
        /\ LatestFullCommit(trusted, (Top(stack[p]).tfc.height + Top(stack[p]).h) \div 2,
                            (Top(stack[p]).tfc.height + Top(stack[p]).h) \div 2) # NoFC

\* C6 (as claimed): every UpdateToHeight call that entered the advance
\* eventually returns (or the process panics), the source and the store
\* answering every request.
C6_Termination ==
    \A p \in Procs : (stack[p] # << >>) ~> (stack[p] = << >> \/ panicked)

\* C7 (as claimed): with SequentialVerification the advance never recurses
\* to a midpoint, and a verification step that reports insufficient overlap
\* ends the call with that error.
C7_SequentialNeverBisects ==
    mode = "sequential" =>
        \A p \in Procs :
            /\ Len(stack[p]) <= 1
            /\ lastVerify[p].err = "ErrTooMuchChange" =>
                  (stack[p] = << >> /\ result[p].res = "ErrTooMuchChange")

\* C8 (as claimed): with SequentialVerification every commit the advance
\* saved was verified against the commit one height below it, so the store
\* holds every height from the anchor up to each saved one.
C8_SequentialStepwise ==
    mode = "sequential" =>
        \A h \in Heights :
            (trusted[h] # NoFC /\ h # AnchorHeight) =>
                /\ savedVia[h].tfc.height = h - 1
                /\ LatestFullCommit(trusted, h - 1, h - 1) # NoFC

\* C9 (as claimed): at most one caller at a time runs the advance for a
\* given target height.
C9_SingleFlight ==
    \A p, q \in Procs :
        (p # q /\ stack[p] # << >> /\ stack[q] # << >>) => target[p] # target[q]

\* C10 (as claimed): each height is fetched from the source at most once and
\* saved to the trusted store at most once.
C10_Idempotence ==
    \A h \in Heights : fetchCount[h] <= 1 /\ saveCount[h] <= 1

\* C11 (as claimed): vp.height never decreases, whatever the targets of the
\* UpdateToHeight calls and however they interleave.
C11_Monotonicity == [][height' >= height]_vars

C13_FailedBootstrapPersistsNothing ==
    (boot.pc \in {"failed", "panic"} \/ (boot.pc # "done" /\ panicked)) =>
        /\ \A h \in Heights : trusted[h] = NoFC
        /\ mem = EmptyDB
        /\ disk = EmptyDB

\* C14 (as claimed): store consistency.  Every full commit the trusted stack or one of
\* its two providers returns, by height or as the latest, is at the height
\* asked for and passes ValidateFull: the validator sets read back under
\* vs@h and vs@(h+1) are the ones the header under sh@h commits to.
C14_StoreConsistency ==
    /\ \A h \in Heights :
          \A r \in {TrustedGet(mem, disk, h), DBGetFullCommit(mem, h),
                    DBGetFullCommit(disk, h)} :
              r.err = "ok" =>
                 /\ r.fc.height = h
                 /\ ValidateFull(r.fc) = "ok"
                 /\ r.fc.vals = SignedHeader(r.fc).vh
                 /\ r.fc.nextvals = SignedHeader(r.fc).nvh
    /\ \A r \in {TrustedLatest(mem, disk), DBLatestFullCommit(mem),
                 DBLatestFullCommit(disk)} :
          r.err = "ok" => ValidateFull(r.fc) = "ok"

\* C15 (as claimed): shared validator set.  When a provider holds signed headers at h
\* and h+1, the set under vs@(h+1) is both the NextValidators of the commit
\* last saved at h and the Validators of the commit last saved at h+1.
C15_SharedValidatorSet ==
    \A h \in Heights :
        h + 1 \in Heights =>
            /\ (disk.sh[h] # NoSH /\ disk.sh[h + 1] # NoSH) =>
                  /\ disk.vs[h + 1] = trusted[h].nextvals
                  /\ disk.vs[h + 1] = trusted[h + 1].vals
            /\ (mem.sh[h] # NoSH /\ mem.sh[h + 1] # NoSH) =>
                  /\ mem.vs[h + 1] = trusted[h].nextvals
                  /\ mem.vs[h + 1] = trusted[h + 1].vals

\* C16: Verify is read-only.  A step in which a caller runs Verify, whatever
\* the header and whatever error it returns, leaves the trusted stack and
\* vp.height as they were and fetches nothing from the source.
C16_VerifyReadOnly ==
    [][verified'.n # verified.n =>
          /\ trusted' = trusted
          /\ mem' = mem
          /\ disk' = disk
          /\ height' = height
          /\ fetchCount' = fetchCount]_vars

\* C16 witness: after an advance, Verify accepted the header of a height
\* above the anchor.
C16_Witness ==
    /\ verified.n = 1
    /\ verified.err = "ok"
    /\ verified.h > AnchorHeight
    /\ \E h \in Heights : saveCount[h] > 0

\* The heights saved so far on the provider under test, and the n highest
\* elements of a set of heights.
SavedHeights == {h \in Heights : saveCount[h] > 0}

HighestN(S, n) == {h \in S : Cardinality({g \in S : g > h}) < n}

\* C17 (as claimed): bounded retention.  With a limit N > 0, after every
\* save the provider holds the signed headers of exactly the N highest
\* saved heights (all of them when fewer were saved), each readable with
\* GetFullCommit, and no sh or vs entry of a lower height.
C17_BoundedRetention ==
    (limit > 0 /\ SavedHeights # {}) =>
        LET kept == HighestN(SavedHeights, limit)
        IN \A h \in Heights :
              /\ mem.sh[h] # NoSH <=> h \in kept
              /\ h \in kept => DBGetFullCommit(mem, h).err = "ok"
              /\ (\A g \in kept : h < g) => (mem.sh[h] = NoSH /\ mem.vs[h] = VNone)

\* C18 (as claimed): retention never loses the latest commit.  With a limit
\* N >= 1, after every save the provider holds sh, vs and the next vs of
\* the highest saved height L, and LatestFullCommit returns the commit at L.
C18_RetentionKeepsLatest ==
    (limit >= 1 /\ SavedHeights # {}) =>
        LET L == CHOOSE h \in SavedHeights : \A g \in SavedHeights : g <= h
        IN /\ mem.sh[L] # NoSH
           /\ mem.vs[L] # VNone
           /\ mem.vs[L + 1] # VNone
           /\ DBLatestFullCommit(mem).err = "ok"
           /\ DBLatestFullCommit(mem).fc.height = L

\* The providers of the stack under test whose reads fail, and those that
\* hold a commit (and do not fail).
Faulty == {i \in 1..Len(provs) : provs[i].fault}
Holding == {i \in 1..Len(provs) : ~provs[i].fault /\ provs[i].have # {}}

\* C19: layered LatestFullCommit.  When no provider fails the result is the
\* commit of greatest height over the providers that hold one, and
\* ErrCommitNotFound exactly when none holds one; when a provider fails,
\* the error of the first such provider is returned and no provider after
\* it is asked.
C19_LayeredLatest ==
    mres.op = "latest" =>
        IF Faulty # {}
        THEN /\ mres.err = "IOError"
             /\ mres.queried = CHOOSE i \in Faulty : \A j \in Faulty : i <= j
        ELSE /\ mres.err = "ErrCommitNotFound" <=> Holding = {}
             /\ Holding # {} =>
                   /\ mres.err = "ok"
                   /\ \A i \in Holding : \A h \in provs[i].have : h <= mres.fc.height
                   /\ \E i \in Holding : mres.fc.height \in provs[i].have
                   /\ mres.fc = source[mres.fc.height]
             /\ mres.queried = Len(provs)

\* C19 witness: the second provider holds a higher commit than the first,
\* and that commit is the result.
C19_Witness ==
    /\ mres.op = "latest"
    /\ mres.err = "ok"
    /\ Len(provs) = 2
    /\ Holding = {1, 2}
    /\ \A h \in provs[1].have : h < mres.fc.height

\* C20: layered GetFullCommit(h).  The result is the answer of the first
\* provider, in order, that either holds a commit at h or fails: the commit
\* at h, or the error even when a provider after it holds the commit; it is
\* ErrCommitNotFound exactly when no provider holds h or fails.
C20_LayeredGet ==
    mres.op = "get" =>
        LET answering == {i \in 1..Len(provs) :
                             provs[i].fault \/ mres.h \in provs[i].have}
        IN IF answering = {}
           THEN mres.err = "ErrCommitNotFound" /\ mres.queried = Len(provs)
           ELSE LET i == CHOOSE j \in answering : \A k \in answering : j <= k
                IN /\ mres.queried = i
                   /\ provs[i].fault => mres.err = "IOError"
                   /\ ~provs[i].fault => (mres.err = "ok" /\ mres.fc = source[mres.h])

\* C20 witness: the first provider fails, the second holds the commit at
\* h, and the error of the first is the result.
C20_Witness ==
    /\ mres.op = "get"
    /\ Len(provs) = 2
    /\ provs[1].fault
    /\ ~provs[2].fault
    /\ mres.h \in provs[2].have
    /\ mres.err = "IOError"

C22_SaveIdempotent ==
    [][(lastSave'.h = lastSave.h /\ lastSave.n >= 1) => mem' = mem]_vars

\* C22 witness: a commit was saved twice in a row under a limit that has
\* evicted a commit saved before.
C22_Witness ==
    /\ lastSave.n >= 2
    /\ limit >= 2
    /\ \E g \in Heights : saveCount[g] > 0 /\ mem.sh[g] = NoSH
    /\ mem.sh[lastSave.h] # NoSH

\* The kinds of the options NewVerifier was given.
GivenKinds == {verifier.opts[i].kind : i \in 1..Len(verifier.opts)}

\* C23 (as claimed): default mode.  A Verifier built without a mode option
\* is in bisecting mode with trust level 1/3, and a Verifier is in
\* sequential mode only when SequentialVerification was passed.
C23_DefaultMode ==
    verifier.pc = "done" =>
        /\ GivenKinds \cap {"SequentialVerification", "BisectingVerification",
                            "DefaultBisectingVerification"} = {}
              => /\ verifier.mode = "bisecting"
                 /\ verifier.trustLevel[1] * 3 = verifier.trustLevel[2]
        /\ verifier.mode = "sequential" => "SequentialVerification" \in GivenKinds

\* C30 (as claimed): the Trusted option.  A Verifier built with Trusted(p)
\* has p for its trusted store and the default layered store is not
\* created; without the option the default layered store is used.
C30_TrustedOption ==
    verifier.pc = "done" =>
        /\ "Trusted" \in GivenKinds => verifier.trusted = "custom"
        /\ "Trusted" \notin GivenKinds => verifier.trusted = "default"

CompleteHeights ==
    {h \in Heights : mem.sh[h] # NoSH /\ mem.vs[h] # VNone /\ mem.vs[h + 1] # VNone}

\* C25 (as claimed): LatestFullCommit of the key-value provider returns the
\* commit of the highest height whose header and both validator sets are
\* present, even below a higher header whose sets are missing, and answers
\* ErrCommitNotFound only when no header qualifies.
C25_LatestSkipsIncomplete ==
    dbres.op = "latest" =>
        IF CompleteHeights = {} THEN dbres.err = "ErrCommitNotFound"
        ELSE /\ dbres.err = "ok"
             /\ dbres.fc.height \in CompleteHeights
             /\ \A h \in CompleteHeights : h <= dbres.fc.height

\* C26: the errors of Verify.  Verify returns an error exactly when the
\* header has another chain id, or its height is below vp.height, or the
\* trusted store has no validator set at its height, or the stored set is
\* not the one its ValidatorsHash commits to, or ValidateBasic fails, or its
\* commit is not signed by more than 2/3 of the stored set.
C26_VerifyErrors ==
    [][verified'.n # verified.n =>
          LET in == verified'.in
              h == in.sh.height
              valSet == IF mem.vs[h] # VNone THEN mem.vs[h] ELSE disk.vs[h]
              signed == SumPower(valSet, in.sh.signers \cap Members(valSet))
          IN verified'.err # "ok" <=>
                \/ ~in.chainOK
                \/ h < height
                \/ valSet = VNone
                \/ valSet # in.sh.vh
                \/ ~in.basicOK
                \/ 3 * signed <= 2 * TotalVotingPower(valSet)]_vars

\* C26 witness: a well-formed header of the right chain, whose validator
\* set the store holds, was refused because it lies below vp.height.
C26_Witness ==
    /\ verified.n >= 1
    /\ verified.err = "ErrHeight"
    /\ verified.in.chainOK
    /\ verified.in.basicOK
    /\ verified.in.sh.height < height

\* C27 (as claimed): source errors are not reclassified.  When the RPC
\* client raises a transport error while the commit or one of its two
\* validator sets is fetched, GetFullCommit returns that error.
C27_SourceErrorsUnchanged ==
    srcres.op = "get" =>
        LET raised == \/ client.commitErr
                      \/ /\ client.chainOK
                         /\ srcres.h \in client.valsErr
                      \/ /\ client.chainOK
                         /\ srcres.h \notin client.valsErr
                         /\ srcres.h + 1 \in client.valsErr
        IN raised => srcres.err = "TransportError"

\* C28 (as claimed): bootstrap ends when the next validator set is not
\* available.  Once the source has answered "validator set not found" for
\* the height after the anchor, the assembly of the anchor commit has
\* failed, after that one attempt, and nothing was saved.
C28_BootstrapNoRetry ==
    boot.tries >= 1 =>
        /\ boot.tries = 1
        /\ boot.pc = "failed"
        /\ ~boot.wrote

\* C29: short circuit on a known height.  An UpdateToHeight(h) call whose
\* lookup in the trusted store fails returns that error, and one that finds
\* a commit at h returns nil; either returns at once, and the call has
\* fetched nothing from the source and written nothing to the store.
C29_ShortCircuit ==
    [][calls' # calls =>
          \E p \in Procs :
             /\ stack[p] = << >>
             /\ \A q \in Procs \ {p} :
                   /\ stack'[q] = stack[q]
                   /\ result'[q] = result[q]
                   /\ target'[q] = target[q]
             /\ LET h == target'[p]
                    returned == /\ stack'[p] = << >>
                                /\ result'[p].h = h
                                /\ fetchCount' = fetchCount
                                /\ saveCount' = saveCount
                                /\ trusted' = trusted
                                /\ mem' = mem
                                /\ disk' = disk
                IN /\ h \in Heights
                   /\ trustedFault => (returned /\ result'[p].res = "IOError")
                   /\ (~trustedFault /\ h \in Heights /\ trusted[h] # NoFC) =>
                         (returned /\ result'[p].res = "ok")]_vars

\* C29 witness: one caller found the height it asked for in the store, the
\* other met a failing store; nothing was fetched or saved.
C29_Witness ==
    /\ result[1].res = "ok"
    /\ ~result[1].verified
    /\ trusted[result[1].h] # NoFC
    /\ result[2].res = "IOError"
    /\ \A h \in Heights : fetchCount[h] = 0 /\ saveCount[h] = 0

\* C31: the "should not happen" panics are out of reach.  Every call of
\* verifyAndSave(trustedFC, newFC) the advance loop is about to make or has
\* made has trustedFC.Height() < newFC.Height(); the bisection branch takes
\* its start and end from the same two commits.
C31_PanicsUnreachable ==
    \A p \in Procs :
        /\ (stack[p] # << >> /\ Top(stack[p]).pc = "verify") =>
              Top(stack[p]).tfc.height < Top(stack[p]).src.height
        /\ \A i \in 1..Len(stack[p]) :
              stack[p][i].tfc # NoFC => stack[p][i].tfc.height < stack[p][i].h
        /\ lastVerify[p].err # "none" =>
              lastVerify[p].tfc.height < lastVerify[p].fc.height

\* C31 witness: a caller bisects (verifyAndSave answered ErrTooMuchChange
\* and an inner frame is open) towards a target below a height the store
\* already holds.
C31_Witness ==
    \E p \in Procs, g \in Heights :
        /\ Len(stack[p]) >= 2
        /\ lastVerify[p].err = "ErrTooMuchChange"
        /\ target[p] < g
        /\ trusted[g] # NoFC

\* C32: completeness of the key-value provider.  After any sequence of
\* SaveFullCommit calls, with or without a retention limit, GetFullCommit
\* answers either the commit or ErrCommitNotFound at every height, never
\* ErrUnknownValidators, and LatestFullCommit likewise: the retention pass
\* deletes a tail of the reverse scan, in which vs@(h+1) and vs@h come
\* ahead of sh@h.
C32_StoredHeadersComplete ==
    /\ \A h \in Heights :
          /\ DBGetFullCommit(mem, h).err # "ErrUnknownValidators"
          /\ mem.sh[h] # NoSH => DBGetFullCommit(mem, h).fc.height = h
    /\ DBLatestFullCommit(mem).err # "ErrUnknownValidators"

\* C32 witness: under a limit the retention pass has evicted the commit
\* saved last, and a header of a greater height is still stored and read
\* back whole.
C32_Witness ==
    /\ limit > 0
    /\ lastSave.h # 0
    /\ mem.sh[lastSave.h] = NoSH
    /\ \E h \in Heights :
          /\ h > lastSave.h
          /\ mem.sh[h] # NoSH
          /\ DBGetFullCommit(mem, h).err = "ok"

\* C33: a failed advance.  The step in which UpdateToHeight(H) returns an
\* error leaves vp.height and the trusted store as they were; a step of the
\* call that writes the commit at H is the step in which the call returns
\* nil; any other write of the call is the commit at the midpoint an inner
\* frame was opened for, strictly between the trusted commit the outermost
\* loop holds and H, written by a verifyAndSave that returned nil; and
\* vp.height changes only in a step in which a call returns nil.
C33_FailedAdvance ==
    [][/\ \A p \in Procs :
             /\ (result'[p] # result[p] /\ result'[p].res \notin {"none", "ok"}) =>
                   /\ height' = height
                   /\ trusted' = trusted
                   /\ mem' = mem
                   /\ disk' = disk
             /\ (/\ stack[p] # << >>
                 /\ Top(stack[p]).pc = "verify"
                 /\ stack'[p] # stack[p]
                 /\ (lastVerify'[p].saved \/ trusted' # trusted)) =>
                   LET h == Top(stack[p]).src.height
                   IN /\ lastVerify'[p].err = "ok"
                      /\ lastVerify'[p].fc.height = h
                      /\ trusted'[h] = Top(stack[p]).src
                      /\ \A g \in Heights \ {h} : trusted'[g] = trusted[g]
                      /\ IF h = target[p]
                         THEN /\ stack'[p] = << >>
                              /\ result'[p].res = "ok"
                         ELSE /\ Len(stack[p]) >= 2
                              /\ result'[p].res = "none"
                              /\ stack[p][1].tfc.height < h
                              /\ h < target[p]
                              /\ LET outer == stack[p][Len(stack[p]) - 1]
                                 IN h = (outer.tfc.height + outer.h) \div 2
                      /\ height' # height => h = target[p]
       /\ height' # height =>
             \E p \in Procs : /\ stack[p] # << >>
                              /\ stack'[p] = << >>
                              /\ result'[p].res = "ok"
                              /\ height' = target[p]
       /\ trusted' # trusted =>
             \E p \in Procs : /\ stack[p] # << >>
                              /\ Top(stack[p]).pc = "verify"
                              /\ stack'[p] # stack[p]]_vars

\* C33 witness: the only call made has returned an error after the commit
\* at a midpoint was verified and saved; the store holds the midpoint and
\* no commit at H, and vp.height is still the zero it started with.
C33_Witness ==
    \E p \in Procs, m \in Heights :
        /\ calls = 1
        /\ stack[p] = << >>
        /\ result[p].res \notin {"none", "ok"}
        /\ AnchorHeight < m
        /\ m < result[p].h
        /\ trusted[m] # NoFC
        /\ savedVia[m] # NoProof
        /\ trusted[result[p].h] = NoFC
        /\ height = 0

====
